---- MODULE Spec2Model ----
(***************************************************************************)
(* Model of wasm_modules/rust_module/src/lib.rs: a flat library of         *)
(* exported pure functions over text and fixed-width integers.             *)
(*                                                                         *)
(* A &str is modelled as what it is: a sequence of bytes holding valid     *)
(* UTF-8.  s.chars() decodes it into Unicode scalar values, collect()      *)
(* encodes scalar values back into bytes, s.bytes() reads the bytes.       *)
(*                                                                         *)
(* An i32 is the integer it denotes, in -2^31 .. 2^31-1.  A u32 or a       *)
(* 32-bit usize (the wasm32 target) is a pair <<hi, lo>> of 16-bit limbs,  *)
(* value hi * 2^16 + lo; all 32-bit arithmetic is carried out on limbs.    *)
(*                                                                         *)
(* The operators +, * and the integer Sum of Rust panic on overflow when   *)
(* the crate is built with overflow checks (the dev profile) and wrap      *)
(* when it is built without (the release profile).  The build is the       *)
(* variable overflow_checks, chosen in Init and never changed.             *)
(***************************************************************************)
EXTENDS Integers, Sequences, FiniteSets, TLC

VARIABLES overflow_checks, pc, fn, text, shift, a, b, size, result

vars == <<overflow_checks, pc, fn, text, shift, a, b, size, result>>

(***************************************************************************)
(* Bounds of the model.                                                    *)
(***************************************************************************)
\* longest text, in scalar values, handed to the text functions
MaxLen == 3
\* longest text, in scalar values, handed to caesar_encrypt
MaxCaesarLen == 2
\* memory_intensive is called with every size 0 .. MaxSmallSize
MaxSmallSize == 5

(***************************************************************************)
(* Fixed-width integers.                                                   *)
(***************************************************************************)
Limb == 2^16

MaxI32 == 2^30 + (2^30 - 1)

MinI32 == -MaxI32 - 1

MaxU8 == 2^8 - 1

\* the two's-complement bit pattern of an i32, as limbs
ToU32(x) == <<(x \div Limb) % Limb, x % Limb>>

\* `as i32` of a 32-bit pattern: the bits reinterpreted as signed
AsI32(u) == IF u[1] >= Limb \div 2 THEN (u[1] - Limb) * Limb + u[2]
            ELSE u[1] * Limb + u[2]

\* `as u32` of a byte
U8AsU32(c) == <<0, c>>

\* u32::wrapping_add
WrappingAddU32(x, y) ==
    LET lo == x[2] + y[2]
        hi == x[1] + y[1] + (lo \div Limb)
    IN  <<hi % Limb, lo % Limb>>

\* u32 << k for k < 16: the bits shifted out of the top are discarded
ShlU32(x, k) ==
    <<((x[1] * 2^k) + ((x[2] * 2^k) \div Limb)) % Limb, (x[2] * 2^k) % Limb>>

\* the low 32 bits of the product of two 32-bit patterns
WrappingMulU32(x, y) ==
    LET \* the 32-bit product of two 16-bit limbs, as limbs
        Mul16(p, q) ==
            LET p0 == (p % 2^8) * q
                p1 == (p \div 2^8) * q
                lo == p0 + ((p1 % 2^8) * 2^8)
            IN  <<((p1 \div 2^8) + (lo \div Limb)) % Limb, lo % Limb>>
        ll == Mul16(x[2], y[2])
        lh == Mul16(x[2], y[1])
        hl == Mul16(x[1], y[2])
    IN  <<(ll[1] + lh[2] + hl[2]) % Limb, ll[2]>>

\* i32 + i32: the wrapped sum, and whether the exact sum left the i32 range
I32Add(x, y) ==
    LET r == AsI32(WrappingAddU32(ToU32(x), ToU32(y)))
    IN  [val |-> r,
         overflow |-> (x >= 0 /\ y >= 0 /\ r < 0) \/ (x < 0 /\ y < 0 /\ r >= 0)]

Abs(x) == IF x < 0 THEN -x ELSE x

\* i32 * i32: the wrapped product, and whether the exact product left the range
I32Mul(x, y) ==
    LET r == AsI32(WrappingMulU32(ToU32(x), ToU32(y)))
        exceeds ==
            IF x = 0 \/ y = 0 THEN FALSE
            ELSE IF x = MinI32 THEN y # 1
            ELSE IF y = MinI32 THEN x # 1
            ELSE IF (x < 0) = (y < 0) THEN Abs(x) > MaxI32 \div Abs(y)
            ELSE LET q == MaxI32 \div Abs(y)
                     m == MaxI32 % Abs(y)
                 IN  Abs(x) - (IF m = Abs(y) - 1 THEN 1 ELSE 0) > q
    IN  [val |-> r, overflow |-> exceeds]

\* u8 + u8: the wrapped sum, and whether the exact sum exceeded 255
U8Add(x, y) == [val |-> (x + y) % (MaxU8 + 1), overflow |-> x + y > MaxU8]

(***************************************************************************)
(* Text: UTF-8 and the character classes of the standard library.          *)
(***************************************************************************)
\* char::encode_utf8, as String's FromIterator<char> applies it
EncodeChar(c) ==
    IF c < 128 THEN <<c>>
    ELSE IF c < 2048 THEN <<192 + (c \div 64), 128 + (c % 64)>>
    ELSE IF c < 65536 THEN
        <<224 + (c \div 4096), 128 + ((c \div 64) % 64), 128 + (c % 64)>>
    ELSE <<240 + (c \div 262144), 128 + ((c \div 4096) % 64),
           128 + ((c \div 64) % 64), 128 + (c % 64)>>

RECURSIVE Collect(_)
\* Iterator<Item = char>::collect::<String>()
Collect(cs) == IF cs = <<>> THEN <<>>
               ELSE EncodeChar(Head(cs)) \o Collect(Tail(cs))

RECURSIVE Chars(_)
\* str::chars(): the scalar values of a valid UTF-8 byte sequence
Chars(s) ==
    IF s = <<>> THEN <<>>
    ELSE LET b0 == s[1]
             n == IF b0 < 128 THEN 1 ELSE IF b0 < 224 THEN 2
                  ELSE IF b0 < 240 THEN 3 ELSE 4
             c == IF n = 1 THEN b0
                  ELSE IF n = 2 THEN (b0 - 192) * 64 + (s[2] - 128)
                  ELSE IF n = 3 THEN (b0 - 224) * 4096 + (s[2] - 128) * 64
                                     + (s[3] - 128)
                  ELSE (b0 - 240) * 262144 + (s[2] - 128) * 4096
                       + (s[3] - 128) * 64 + (s[4] - 128)
         IN  <<c>> \o Chars(SubSeq(s, n + 1, Len(s)))

\* Iterator::rev() over a sequence
Rev(cs) == [k \in 1..Len(cs) |-> cs[Len(cs) + 1 - k]]

is_ascii_lowercase(c) == c \in 97..122

is_ascii_uppercase(c) == c \in 65..90

\* char::to_ascii_lowercase: only A-Z change
to_ascii_lowercase(c) == IF is_ascii_uppercase(c) THEN c + 32 ELSE c

\* the non-ASCII scalar values of the texts below with the Unicode property
\* Alphabetic or a numeric general category: U+00C9 and U+00E9
NonAsciiAlphanumeric == {201, 233}

\* char::is_alphanumeric
is_alphanumeric(c) ==
    \/ c \in 48..57
    \/ is_ascii_lowercase(c)
    \/ is_ascii_uppercase(c)
    \/ c \in NonAsciiAlphanumeric

\* char::is_whitespace: the Unicode White_Space property
is_whitespace(c) ==
    \/ c \in 9..13
    \/ c \in {32, 133, 160, 5760, 8232, 8233, 8239, 8287, 12288}
    \/ c \in 8192..8202

\* str::split_whitespace(): the maximal runs of non-whitespace characters,
\* each as a sub-string (bytes)
RECURSIVE SplitChars(_, _)
SplitChars(cs, word) ==
    IF cs = <<>> THEN (IF word = <<>> THEN <<>> ELSE <<word>>)
    ELSE IF is_whitespace(Head(cs))
         THEN (IF word = <<>> THEN <<>> ELSE <<word>>)
              \o SplitChars(Tail(cs), <<>>)
         ELSE SplitChars(Tail(cs), Append(word, Head(cs)))

split_whitespace(s) ==
    LET ws == SplitChars(Chars(s), <<>>)
    IN  [k \in 1..Len(ws) |-> Collect(ws[k])]

(***************************************************************************)
(* The exported functions.                                                 *)
(***************************************************************************)
IsVowel(c) == to_ascii_lowercase(c) \in {97, 101, 105, 111, 117}

count_vowels(s) == Len(SelectSeq(Chars(s), IsVowel))

\* reverse_string with the final scalar value lost before reversing
reverse_string_skip_last(s) ==
    LET cs == Chars(s)
    IN  Collect(Rev(SubSeq(cs, 1, Len(cs) - 1)))

\* reverse_string with .rev() left out
reverse_string_no_rev(s) == Collect(Chars(s))

reverse_string(s) == Collect(Rev(Chars(s)))

Cleaned(s) ==
    LET kept == SelectSeq(Chars(s), is_alphanumeric)
    IN  Collect([k \in 1..Len(kept) |-> to_ascii_lowercase(kept[k])])

is_palindrome(s) == Cleaned(s) = Collect(Rev(Chars(Cleaned(s))))

HashSeed == <<0, 5381>>

\* the loop body of hash_string shifting by 4: hash * 17 + c
HashStep_shl4(hash, c) ==
    WrappingAddU32(WrappingAddU32(ShlU32(hash, 4), hash), U8AsU32(c))

\* one iteration of the loop of hash_string
HashStep(hash, c) ==
    WrappingAddU32(WrappingAddU32(ShlU32(hash, 5), hash), U8AsU32(c))

RECURSIVE HashFold(_, _)
\* the loop of hash_string over the bytes left to read.  (The test on next
\* is always true: it makes TLC compute each step before the following
\* one instead of nesting them.)
HashFold(hash, bytes) ==
    IF bytes = <<>> THEN hash
    ELSE LET next == HashStep(hash, Head(bytes))
         IN  IF next[1] < Limb THEN HashFold(next, Tail(bytes)) ELSE next

hash_string(s) == HashFold(HashSeed, s)

RECURSIVE MaxOf(_)
\* Iterator::max() followed by unwrap_or(0)
MaxOf(ns) == IF ns = <<>> THEN 0
             ELSE LET m == MaxOf(Tail(ns))
                  IN  IF Head(ns) > m THEN Head(ns) ELSE m

\* str::len() is the length in bytes
longest_word_length(s) ==
    LET ws == split_whitespace(s)
    IN  MaxOf([k \in 1..Len(ws) |-> Len(ws[k])])

word_count(s) == Len(split_whitespace(s))

\* the closure of caesar_encrypt, on one char: the u8 arithmetic of
\* (((c as u8 - base) + shift) % 26) + base
CaesarMap(c, sh) ==
    LET base == IF is_ascii_lowercase(c) THEN 97 ELSE 65
        sum == U8Add(c - base, sh)
    IN  IF is_ascii_lowercase(c) \/ is_ascii_uppercase(c)
        THEN [panic |-> sum.overflow /\ overflow_checks,
              val |-> (sum.val % 26) + base]
        ELSE [panic |-> FALSE, val |-> c]

caesar_encrypt(s, sh) ==
    LET cs == Chars(s)
        out == [k \in 1..Len(cs) |-> CaesarMap(cs[k], sh)]
    IN  IF \E k \in 1..Len(cs) : out[k].panic
        THEN [panic |-> TRUE, val |-> <<>>]
        ELSE [panic |-> FALSE,
              val |-> Collect([k \in 1..Len(cs) |-> out[k].val])]

add(x, y) ==
    LET r == I32Add(x, y)
    IN  [panic |-> r.overflow /\ overflow_checks, val |-> r.val]

multiply(x, y) ==
    LET r == I32Mul(x, y)
    IN  [panic |-> r.overflow /\ overflow_checks, val |-> r.val]

\* (0..size as i32).collect(): the Vec holds k at index k; a range whose
\* end is not above its start is empty
VecLen(sz) == IF AsI32(sz) > 0 THEN AsI32(sz) ELSE 0

\* one addition of vec.iter().sum(): a panic ends the summation
SumStep(st, x) ==
    IF st.panic THEN st
    ELSE LET r == I32Add(st.val, x)
         IN  [panic |-> r.overflow /\ overflow_checks, val |-> r.val]

RECURSIVE SumFold(_, _, _)
\* the additions for the elements at indices lo .. hi-1, in index order,
\* starting from st; a panic ends them.  (The range is cut in four only to
\* keep the recursion shallow: the additions and their order are the
\* loop's.)
SumFold(st, lo, hi) ==
    IF hi <= lo THEN st
    ELSE IF hi = lo + 1 THEN SumStep(st, lo)
    ELSE LET q == (hi - lo + 3) \div 4
             s1 == SumFold(st, lo, lo + q)
             s2 == SumFold(s1, lo + q, lo + (2 * q))
             s3 == SumFold(s2, lo + (2 * q), lo + (3 * q))
         IN  IF s1.panic THEN s1
             ELSE IF s2.panic THEN s2
             ELSE IF s3.panic THEN s3
             ELSE SumFold(s3, lo + (3 * q), hi)

memory_intensive(sz) == SumFold([panic |-> FALSE, val |-> 0], 0, VecLen(sz))

(***************************************************************************)
(* Inputs.                                                                 *)
(***************************************************************************)
\* a  b  A  1  space  U+00A0  U+00E9  U+00C9  U+20AC  U+1F600: letters of both
\* cases, a digit, ASCII and non-ASCII whitespace, and characters whose
\* UTF-8 encodings are 1, 2, 3 and 4 bytes long
Alphabet == {97, 98, 65, 49, 32, 160, 233, 201, 8364, 128512}

\* a  m  z  A  Z  1  U+00E9
CaesarAlphabet == {97, 109, 122, 65, 90, 49, 233}

SeqsUpTo(S, n) == UNION {[1..k -> S] : k \in 0..n}

Texts == {Collect(cs) : cs \in SeqsUpTo(Alphabet, MaxLen)}

CaesarTexts == {Collect(cs) : cs \in SeqsUpTo(CaesarAlphabet, MaxCaesarLen)}

Shifts == 0..MaxU8

I32Samples == {MinI32, MinI32 + 1, -65536, -46341, -2, -1, 0, 1, 2, 3,
               46340, 46341, 65536, MaxI32 - 1, MaxI32}

\* 32-bit sizes: the small ones, 65537 (the first whose sum leaves the i32
\* range), 2^31, and 2^32 - 1
Sizes == {<<0, n>> : n \in 0..MaxSmallSize}
         \cup {<<1, 1>>, <<Limb \div 2, 0>>, <<Limb - 1, Limb - 1>>}

(***************************************************************************)
(* One call of an exported function.                                       *)
(***************************************************************************)
Init ==
    /\ overflow_checks \in BOOLEAN
    /\ pc = "idle"
    /\ fn = "none"
    /\ text = <<>>
    /\ shift = 0
    /\ a = 0
    /\ b = 0
    /\ size = <<0, 0>>
    /\ result = <<>>

\* the call ends: a panic aborts it, otherwise it returns its value
Finish(r) ==
    /\ pc' = IF r.panic THEN "panicked" ELSE "returned"
    /\ result' = IF r.panic THEN <<>> ELSE r.val

\* a function with no panicking operation in it
Total(v) == [panic |-> FALSE, val |-> v]

Call_count_vowels ==
    /\ pc = "idle"
    /\ \E t \in Texts :
           /\ fn' = "count_vowels"
           /\ text' = t
           /\ Finish(Total(count_vowels(t)))
           /\ UNCHANGED <<overflow_checks, shift, a, b, size>>

Call_reverse_string ==
    /\ pc = "idle"
    /\ \E t \in Texts :
           /\ fn' = "reverse_string"
           /\ text' = t
           /\ Finish(Total(reverse_string(t)))
           /\ UNCHANGED <<overflow_checks, shift, a, b, size>>

Call_is_palindrome ==
    /\ pc = "idle"
    /\ \E t \in Texts :
           /\ fn' = "is_palindrome"
           /\ text' = t
           /\ Finish(Total(is_palindrome(t)))
           /\ UNCHANGED <<overflow_checks, shift, a, b, size>>

Call_hash_string ==
    /\ pc = "idle"
    /\ \E t \in Texts :
           /\ fn' = "hash_string"
           /\ text' = t
           /\ Finish(Total(hash_string(t)))
           /\ UNCHANGED <<overflow_checks, shift, a, b, size>>

Call_longest_word_length ==
    /\ pc = "idle"
    /\ \E t \in Texts :
           /\ fn' = "longest_word_length"
           /\ text' = t
           /\ Finish(Total(longest_word_length(t)))
           /\ UNCHANGED <<overflow_checks, shift, a, b, size>>

Call_word_count ==
    /\ pc = "idle"
    /\ \E t \in Texts :
           /\ fn' = "word_count"
           /\ text' = t
           /\ Finish(Total(word_count(t)))
           /\ UNCHANGED <<overflow_checks, shift, a, b, size>>

Call_caesar_encrypt ==
    /\ pc = "idle"
    /\ \E t \in CaesarTexts, sh \in Shifts :
           /\ fn' = "caesar_encrypt"
           /\ text' = t
           /\ shift' = sh
           /\ Finish(caesar_encrypt(t, sh))
           /\ UNCHANGED <<overflow_checks, a, b, size>>

Call_add ==
    /\ pc = "idle"
    /\ \E x \in I32Samples, y \in I32Samples :
           /\ fn' = "add"
           /\ a' = x
           /\ b' = y
           /\ Finish(add(x, y))
           /\ UNCHANGED <<overflow_checks, text, shift, size>>

Call_multiply ==
    /\ pc = "idle"
    /\ \E x \in I32Samples, y \in I32Samples :
           /\ fn' = "multiply"
           /\ a' = x
           /\ b' = y
           /\ Finish(multiply(x, y))
           /\ UNCHANGED <<overflow_checks, text, shift, size>>

Call_memory_intensive ==
    /\ pc = "idle"
    /\ \E sz \in Sizes :
           /\ fn' = "memory_intensive"
           /\ size' = sz
           /\ Finish(memory_intensive(sz))
           /\ UNCHANGED <<overflow_checks, text, shift, a, b>>

Next ==
    \/ Call_count_vowels
    \/ Call_reverse_string
    \/ Call_is_palindrome
    \/ Call_hash_string
    \/ Call_longest_word_length
    \/ Call_word_count
    \/ Call_caesar_encrypt
    \/ Call_add
    \/ Call_multiply
    \/ Call_memory_intensive

Spec == Init /\ [][Next]_vars

(***************************************************************************)
(* Claims.                                                                 *)
(***************************************************************************)
Returned(name) == fn = name /\ pc = "returned"

Called(name) == fn = name /\ pc # "idle"

\* the letter at offset (k + (sh mod 26)) mod 26 of the alphabet of c's case
ShiftedLetter(c, sh) ==
    IF is_ascii_lowercase(c) THEN 97 + (((c - 97) + (sh % 26)) % 26)
    ELSE IF is_ascii_uppercase(c) THEN 65 + (((c - 65) + (sh % 26)) % 26)
    ELSE c

ShiftedText(s, sh) ==
    LET cs == Chars(s)
    IN  Collect([k \in 1..Len(cs) |-> ShiftedLetter(cs[k], sh)])

\* C1: for every text and every shift 0..255, caesar_encrypt returns without
\* error, maps each ASCII letter at offset k to the letter at offset
\* (k + (shift mod 26)) mod 26 of the same case, and equals
\* caesar_encrypt(t, shift mod 26).
C1_CaesarShiftMod26 ==
    Called("caesar_encrypt") =>
        /\ pc = "returned"
        /\ result = ShiftedText(text, shift)
        /\ caesar_encrypt(text, shift % 26) = [panic |-> FALSE, val |-> result]

OnlyAsciiLetters(s) ==
    \A k \in 1..Len(Chars(s)) :
        is_ascii_lowercase(Chars(s)[k]) \/ is_ascii_uppercase(Chars(s)[k])

\* C2: for every shift 0..255 and every text of ASCII letters only,
\* caesar_encrypt(caesar_encrypt(t, shift), 26 - (shift mod 26)) = t.
C2_CaesarRoundTrip ==
    (Called("caesar_encrypt") /\ OnlyAsciiLetters(text)) =>
        /\ pc = "returned"
        /\ caesar_encrypt(result, 26 - (shift % 26))
               = [panic |-> FALSE, val |-> text]

\* C3: every exported operation is total over its typed domain: no call
\* aborts, also when the exact result of add, multiply or the summation of
\* memory_intensive lies outside the signed 32-bit range.
C3_NoCallPanics == pc # "panicked"

\* n \div 2 of a 32-bit pattern
HalfU32(u) == <<u[1] \div 2, ((u[1] % 2) * (Limb \div 2)) + (u[2] \div 2)>>

\* n - 1 of a non-zero 32-bit pattern
PredU32(u) == IF u[2] > 0 THEN <<u[1], u[2] - 1>> ELSE <<u[1] - 1, Limb - 1>>

\* 0 + 1 + ... + (n-1) = n(n-1)/2, reduced modulo 2^32 into the i32 range
WrappedSumBelow(u) ==
    IF u = <<0, 0>> THEN 0
    ELSE IF u[2] % 2 = 0 THEN AsI32(WrappingMulU32(HalfU32(u), PredU32(u)))
    ELSE AsI32(WrappingMulU32(u, HalfU32(PredU32(u))))

WrappedSum(x, y) ==
    IF x > 0 /\ y > MaxI32 - x THEN (x - MaxI32 - 1) + (y - MaxI32 - 1)
    ELSE IF x < 0 /\ y < MinI32 - x THEN (x + MaxI32 + 1) + (y + MaxI32 + 1)
    ELSE x + y

\* C5: for all signed 32-bit a and b, add(a, b) returns the two's-complement
\* wrapped sum; add(2147483647, 1) returns -2147483648.
C5_AddWraps ==
    Called("add") =>
        /\ pc = "returned"
        /\ result = WrappedSum(a, b)
        /\ ((a = MaxI32 /\ b = 1) => result = MinI32)

\* C6: longest_word_length(t) is the maximum number of characters (scalar
\* values, not UTF-8 bytes) among the whitespace-separated words of t, and 0
\* when there is none.
C6_LongestWordInCharacters ==
    Called("longest_word_length") =>
        /\ pc = "returned"
        /\ LET ws == SplitChars(Chars(text), <<>>)
           IN  /\ \A k \in 1..Len(ws) : Len(ws[k]) <= result
               /\ IF ws = <<>> THEN result = 0
                  ELSE \E k \in 1..Len(ws) : Len(ws[k]) = result

\* Unicode simple lowercase mapping, on ASCII and Latin-1 (U+00C9 -> U+00E9)
SimpleLowercase(c) ==
    IF is_ascii_uppercase(c) THEN c + 32
    ELSE IF c \in 192..222 /\ c # 215 THEN c + 32
    ELSE c

\* C7: is_palindrome(t) is true exactly when the alphanumeric characters of
\* t, each lowercased by simple case folding (non-ASCII uppercase letters
\* included), read the same in both directions.
C7_PalindromeUnicodeFolding ==
    Called("is_palindrome") =>
        /\ pc = "returned"
        /\ LET kept == SelectSeq(Chars(text), is_alphanumeric)
               folded == [k \in 1..Len(kept) |-> SimpleLowercase(kept[k])]
           IN  result = (folded = Rev(folded))

\* (h * 33 + c) mod 2^32, by multiplication
Mul33Add(h, c) ==
    LET lo == (h[2] * 33) + c
        hi == (h[1] * 33) + (lo \div Limb)
    IN  <<hi % Limb, lo % Limb>>

RECURSIVE Mul33Fold(_, _)
Mul33Fold(h, bytes) ==
    IF bytes = <<>> THEN h
    ELSE LET next == Mul33Add(h, Head(bytes))
         IN  IF next[1] < Limb THEN Mul33Fold(next, Tail(bytes)) ELSE next

\* the value of hash before the loop of hash_string reads byte k of s
HashBefore(s, k) == hash_string(SubSeq(s, 1, k - 1))

\* C8: hash_string(t) is the fold over the UTF-8 bytes of t of
\* h := (h * 33 + b) mod 2^32 from h = 5381, so hash_string("") = 5381; and
\* ((h << 5) + h) + b with 32-bit wraparound equals (h * 33 + b) mod 2^32 at
\* every step, also when h << 5 discards high bits.
C8_HashIsDjb2 ==
    Called("hash_string") =>
        /\ pc = "returned"
        /\ result = Mul33Fold(<<0, 5381>>, text)
        /\ (text = <<>> => result = <<0, 5381>>)
        /\ \A k \in 1..Len(text) :
               HashStep(HashBefore(text, k), text[k])
                   = Mul33Add(HashBefore(text, k), text[k])
        /\ \A c \in {0, 127, 128, 255} : HashStep(result, c) = Mul33Add(result, c)

\* a hash of a text with a multi-byte character, with a step at which
\* hash << 5 discards set high bits
C8_Witness ==
    /\ Returned("hash_string")
    /\ Len(text) > Len(Chars(text))
    /\ \E k \in 1..Len(text) : HashBefore(text, k)[1] >= 2^11

\* C9: is_palindrome(t) = is_palindrome(reverse_string(t)) for every text t.
C9_PalindromeOfReverse ==
    Called("is_palindrome") =>
        /\ pc = "returned"
        /\ result = is_palindrome(reverse_string(text))

\* a text that differs from its reversal, with two or more alphanumeric
\* characters, judged a palindrome
C9_Witness ==
    /\ Returned("is_palindrome")
    /\ result = TRUE
    /\ reverse_string(text) # text
    /\ Len(Cleaned(text)) >= 2

\* C10: reverse_string reverses the sequence of scalar values, and
\* reverse_string(reverse_string(t)) = t.
C10_ReverseInvolution ==
    Called("reverse_string") =>
        /\ pc = "returned"
        /\ Chars(result) = Rev(Chars(text))
        /\ reverse_string(result) = text

\* a reversed text of three scalar values, one of them multi-byte, that
\* differs from its input
C10_Witness ==
    /\ Returned("reverse_string")
    /\ Len(Chars(text)) >= 3
    /\ Len(text) > Len(Chars(text))
    /\ result # text

====
